---- MODULE Spec2Model ----
(***************************************************************************)
(* A model of siem-lite: the alert store (AlertORM rows behind             *)
(* SQLAlchemyAlertRepository), the AlertService operations, the alert      *)
(* routes of the REST API, the Alert entity methods, and the detection     *)
(* rules run by LogProcessor.                                              *)
(*                                                                         *)
(* Representation                                                          *)
(*   - a Python str that is only compared is a TLA+ string; a str whose    *)
(*     length or whitespace the code inspects (alert_type) is a sequence   *)
(*     of one-character strings;                                           *)
(*   - Optional[str] / Optional[enum]: the string NoneStr stands for None; *)
(*   - Optional[datetime], Optional[Alert] and an optional sequence-valued *)
(*     str: <<>> stands for None and <<x>> for the value x;                *)
(*   - a datetime is an integer number of clock ticks;                     *)
(*   - a dict is a function whose domain is its key set;                   *)
(*   - the JSON text of a dict is the set of its members <<key, value>>.   *)
(* A service call that updates or deletes an alert is two statements on    *)
(* the store, get_alert and then update_alert / delete_alert, each of them *)
(* one transaction; calls of different callers (API worker processes, the  *)
(* CLI) on the same database interleave between the two.                   *)
(* The ORM column updated_at is written by the database on every UPDATE    *)
(* and read by nothing that is modelled here; it is left out.              *)
(***************************************************************************)
EXTENDS Integers, Sequences, FiniteSets, TLC

VARIABLES
    db,     \* the alerts table: id -> AlertORM row
    now,    \* the wall clock read by datetime.now()
    ret,    \* what the last API call returned
    steps,  \* number of API calls made so far
    ent,    \* a detached in-memory Alert entity (domain layer only)
    logs,   \* the batch of parsed log records handed to the detector
    run,    \* the outcome of the last detector run
    calls   \* the service calls in flight on the shared store, per caller

vars == <<db, now, ret, steps, ent, logs, run, calls>>

----------------------------------------------------------------------------
(* Bounds of the model *)

MaxId == 2
MaxClock == 1
MaxSteps == 3
TicksPerDay == 1

(* Program constants *)

MaxAlertTypeLen == 100
TOP_IPS == 10
TOP_PATTERNS == 5

----------------------------------------------------------------------------
(* Values *)

None == <<>>
Some(x) == <<x>>
NoneStr == "None"

AlertStatus == {"OPEN", "ACKNOWLEDGED", "RESOLVED", "FALSE_POSITIVE"}
AlertSeverity == {"LOW", "MEDIUM", "HIGH", "CRITICAL"}

Analysts == {"alice", "bob"}

EmptyDict == <<>>

\* s repeated: the str c * n
Str(n, c) == [i \in 1..n |-> c]

\* datetime.isoformat(): the text of an instant
IsoTable == <<"T0", "T1", "T2", "T3", "T4", "T5">>
isoformat(t) == IsoTable[t + 1]

----------------------------------------------------------------------------
(* utils/validation.py and the pydantic request schemas *)

RECURSIVE lstrip(_)
lstrip(s) == IF s # <<>> /\ Head(s) = " " THEN lstrip(Tail(s)) ELSE s

RECURSIVE rstrip(_)
rstrip(s) ==
    IF s # <<>> /\ s[Len(s)] = " " THEN rstrip(SubSeq(s, 1, Len(s) - 1)) ELSE s

\* str.strip()
strip(s) == rstrip(lstrip(s))

\* ipaddress.ip_address(v) accepts v: a dotted quad of octets 0..255, or eight
\* colon-separated groups 0..65535 (the "::" abbreviation is not modelled).
ip_address_ok(v) ==
    \/ /\ v.sep = "."
       /\ Len(v.parts) = 4
       /\ \A i \in 1..Len(v.parts) : v.parts[i] \in 0..255
    \/ /\ v.sep = ":"
       /\ Len(v.parts) = 8
       /\ \A i \in 1..Len(v.parts) : v.parts[i] \in 0..65535

\* validate_ip_address raises ValidationError: TRUE when it raises
validate_ip_address_raises(ip) == ~ip_address_ok(ip)

\* validate_alert_type without its whitespace test
validate_alert_type_raises_nostrip(alert_type) ==
    \/ alert_type = <<>>
    \/ Len(alert_type) > MaxAlertTypeLen

\* validate_alert_type raises ValidationError: TRUE when it raises
validate_alert_type_raises(alert_type) ==
    \/ alert_type = <<>>
    \/ Len(strip(alert_type)) = 0
    \/ Len(alert_type) > MaxAlertTypeLen

\* AlertCreate: the request body passes pydantic validation
AlertCreate_valid(body) ==
    /\ Len(body.alert_type) >= 1
    /\ Len(body.alert_type) <= MaxAlertTypeLen
    /\ ip_address_ok(body.source_ip)
    /\ Len(body.details) >= 1
    /\ body.severity \in AlertSeverity \cup {NoneStr}

\* AlertUpdate: the request body passes pydantic validation
AlertUpdate_valid(body) ==
    /\ body.details = None \/ Len(body.details[1]) >= 1
    /\ body.severity \in AlertSeverity \cup {NoneStr}
    /\ body.status \in AlertStatus \cup {NoneStr}

----------------------------------------------------------------------------
(* infrastructure/models.py: AlertORM *)

\* json.dumps of a dict
json_dumps(d) == {<<k, d[k]>> : k \in DOMAIN d}

\* json.loads of an object text
json_loads(text) ==
    [k \in {m[1] : m \in text} |-> (CHOOSE m \in text : m[1] = k)[2]]

\* AlertORM.set_metadata: the text stored in alert_metadata
set_metadata(value) == json_dumps(value)

\* AlertORM.get_metadata
get_metadata(row) ==
    IF row.alert_metadata # {} THEN json_loads(row.alert_metadata) ELSE EmptyDict

----------------------------------------------------------------------------
(* infrastructure/repositories_fixed.py: SQLAlchemyAlertRepository *)

\* the id SQLite gives the next inserted row (INTEGER PRIMARY KEY: max + 1)
NextId(d) ==
    IF DOMAIN d = {} THEN 1
    ELSE (CHOOSE m \in DOMAIN d : \A j \in DOMAIN d : j <= m) + 1

to_entity(id, row) ==
    [id |-> Some(id),
     alert_type |-> row.alert_type,
     source_ip |-> row.source_ip,
     details |-> row.details,
     timestamp |-> row.timestamp,
     severity |-> row.severity,
     status |-> row.status,
     assigned_to |-> NoneStr,
     resolved_at |-> None,
     metadata |-> get_metadata(row)]

Repo_get_alert(d, alert_id) ==
    IF alert_id \in DOMAIN d THEN Some(to_entity(alert_id, d[alert_id])) ELSE None

\* the ids of a table in the order the query returns its rows (rowid order)
RECURSIVE ids_in_order(_)
ids_in_order(S) ==
    IF S = {} THEN <<>>
    ELSE LET m == CHOOSE i \in S : \A j \in S : i <= j
         IN  <<m>> \o ids_in_order(S \ {m})

Repo_get_all_alerts(d) ==
    LET ids == ids_in_order(DOMAIN d)
    IN  [i \in 1..Len(ids) |-> to_entity(ids[i], d[ids[i]])]

\* the row create_alert inserts for an entity; t is the clock for the column default
Repo_new_row(alert, t) ==
    [alert_type |-> alert.alert_type,
     source_ip |-> alert.source_ip,
     details |-> alert.details,
     timestamp |-> IF alert.timestamp = None THEN Some(t) ELSE alert.timestamp,
     severity |-> IF alert.severity # NoneStr THEN alert.severity ELSE "MEDIUM",
     status |-> IF alert.status # NoneStr THEN alert.status ELSE "OPEN",
     alert_metadata |-> set_metadata(alert.metadata)]

\* create_alert: the table after the insert
Repo_create_alert(d, alert, t) ==
    (NextId(d) :> Repo_new_row(alert, t)) @@ d

\* the row update_alert writes for an entity
Repo_updated_row(alert) ==
    [alert_type |-> alert.alert_type,
     source_ip |-> alert.source_ip,
     details |-> alert.details,
     timestamp |-> alert.timestamp,
     severity |-> alert.severity,
     status |-> alert.status,
     alert_metadata |-> set_metadata(alert.metadata)]

\* update_alert leaving the status column of the row as it finds it
Repo_update_alert_keeping_status(d, alert) ==
    LET id == alert.id[1] IN
    IF id \in DOMAIN d
    THEN [d EXCEPT ![id] = [Repo_updated_row(alert) EXCEPT !.status = d[id].status]]
    ELSE d

\* update_alert: the table after the update (no row with that id: nothing written)
Repo_update_alert(d, alert) ==
    LET id == alert.id[1] IN
    IF id \in DOMAIN d THEN [d EXCEPT ![id] = Repo_updated_row(alert)] ELSE d

\* delete_alert: the table after the delete
Repo_delete_alert(d, alert_id) ==
    [i \in DOMAIN d \ {alert_id} |-> d[i]]

----------------------------------------------------------------------------
(* domain/entities.py: the Alert dataclass and its methods *)

Alert(id, alert_type, source_ip, details, timestamp, severity, status, assigned_to, resolved_at, metadata) ==
    [id |-> id,
     alert_type |-> alert_type,
     source_ip |-> source_ip,
     details |-> details,
     timestamp |-> timestamp,
     severity |-> severity,
     status |-> status,
     assigned_to |-> assigned_to,
     resolved_at |-> resolved_at,
     metadata |-> metadata]

\* Python truth value of an Optional[str]
Truthy(x) == x # NoneStr /\ x # ""

Alert_acknowledge(a, analyst) ==
    [a EXCEPT !.status = "ACKNOWLEDGED", !.assigned_to = analyst]

Alert_resolve(a, analyst, t) ==
    [a EXCEPT !.status = "RESOLVED",
              !.resolved_at = Some(t),
              !.assigned_to = IF ~Truthy(a.assigned_to) THEN analyst ELSE @]

Alert_mark_false_positive(a, analyst, t) ==
    [a EXCEPT !.status = "FALSE_POSITIVE",
              !.resolved_at = Some(t),
              !.assigned_to = IF ~Truthy(a.assigned_to) THEN analyst ELSE @]

----------------------------------------------------------------------------
(* domain/services.py: AlertService.  Each operation yields the table it   *)
(* leaves (db), what it returns (ok / out) and the exception it lets       *)
(* escape (exc, "" for none).                                              *)

Result(d, ok, out, exc) == [db |-> d, ok |-> ok, out |-> out, exc |-> exc]

\* a dict replaced by the patch instead of merged with it
dict_update_replacing(d, patch) == patch

\* dict.update: the keys of patch are added or overwritten
dict_update(d, patch) == patch @@ d

\* d[key] = value
dict_set(d, key, value) == (key :> value) @@ d

\* Python truth value of an Optional[str] held as a sequence of characters
TruthyChars(x) == x # None /\ x[1] # <<>>

\* Python truth value of an Optional[str] holding an address
TruthyIp(x) == x # None /\ x[1].parts # <<>>

\* seq[a:b] for a, b >= 0
python_slice(seq, a, b) ==
    LET lo == IF a < Len(seq) THEN a ELSE Len(seq)
        hi == IF b < Len(seq) THEN b ELSE Len(seq)
    IN  SubSeq(seq, lo + 1, hi)

\* filtered_alerts as list_alerts_paginated leaves it: one pass per filter
\* field whose value is true in Python
filtered_alerts(d, filters) ==
    LET all_alerts == Repo_get_all_alerts(d)
        f1 == IF Truthy(filters.severity)
              THEN SelectSeq(all_alerts, LAMBDA a : a.severity = filters.severity)
              ELSE all_alerts
        f2 == IF Truthy(filters.status)
              THEN SelectSeq(f1, LAMBDA a : a.status = filters.status)
              ELSE f1
        f3 == IF TruthyIp(filters.source_ip)
              THEN SelectSeq(f2, LAMBDA a : a.source_ip = filters.source_ip[1])
              ELSE f2
        f4 == IF TruthyChars(filters.alert_type)
              THEN SelectSeq(f3, LAMBDA a : a.alert_type = filters.alert_type[1])
              ELSE f3
        f5 == IF filters.start_date # None
              THEN SelectSeq(f4, LAMBDA a : a.timestamp[1] >= filters.start_date[1])
              ELSE f4
        f6 == IF filters.end_date # None
              THEN SelectSeq(f5, LAMBDA a : a.timestamp[1] <= filters.end_date[1])
              ELSE f5
    IN  f6

\* the page cut as filtered_alerts[skip:limit]
paginate_to_limit(filtered, skip, limit) == python_slice(filtered, skip, limit)

\* paginated_alerts = filtered_alerts[skip:skip + limit]
paginate(filtered, skip, limit) == python_slice(filtered, skip, skip + limit)

AlertService_list_alerts_paginated(d, skip, limit, filters) ==
    LET filtered == filtered_alerts(d, filters)
    IN  Result(d, TRUE,
               [items |-> paginate(filtered, skip, limit), total |-> Len(filtered)],
               "")

\* collections.Counter over a list: one is added to the key's count per element
RECURSIVE Counter(_)
Counter(seq) ==
    IF seq = <<>> THEN EmptyDict
    ELSE LET c == Counter(SubSeq(seq, 1, Len(seq) - 1))
             k == seq[Len(seq)]
         IN  IF k \in DOMAIN c THEN [c EXCEPT ![k] = @ + 1] ELSE (k :> 1) @@ c

\* dict(c.most_common(n)): the n keys of highest count
most_common(c, n) ==
    IF Cardinality(DOMAIN c) <= n THEN c
    ELSE LET top == CHOOSE S \in SUBSET DOMAIN c :
                        /\ Cardinality(S) = n
                        /\ \A k \in S, j \in DOMAIN c \ S : c[k] >= c[j]
         IN  [k \in top |-> c[k]]

\* timedelta.days of a difference of two instants: whole days, rounded down
timedelta_days(delta) == delta \div TicksPerDay

\* the number of rows taken for the number of addresses
unique_ips_rows(alerts) == Len(alerts)

\* len(set(alert.source_ip for alert in alerts))
unique_ips(alerts) == Cardinality({alerts[i].source_ip : i \in 1..Len(alerts)})

\* get_alert_statistics, t being what datetime.now() returns
AlertService_get_alert_statistics(d, t) ==
    LET alerts == Repo_get_all_alerts(d)
        field(f(_)) == [i \in 1..Len(alerts) |-> f(alerts[i])]
        status_counts == Counter(field(LAMBDA a : a.status))
        severity_counts == Counter(field(LAMBDA a : a.severity))
        type_counts == Counter(field(LAMBDA a : a.alert_type))
        ip_counts == Counter(field(LAMBDA a : a.source_ip))
        recent_alerts == SelectSeq(alerts, LAMBDA a : timedelta_days(t - a.timestamp[1]) < 1)
    IN  Result(d, TRUE,
               [total_alerts |-> Len(alerts),
                recent_alerts_24h |-> Len(recent_alerts),
                status_distribution |-> status_counts,
                severity_distribution |-> severity_counts,
                alert_type_distribution |-> type_counts,
                top_source_ips |-> most_common(ip_counts, TOP_IPS),
                unique_ips |-> unique_ips(alerts)],
               "")

AlertService_create_alert(d, alert, t) ==
    LET a1 == [alert EXCEPT
                 !.timestamp = IF @ = None THEN Some(t) ELSE @,
                 !.status = IF @ = NoneStr THEN "OPEN" ELSE @,
                 !.severity = IF @ = NoneStr THEN "MEDIUM" ELSE @]
        d1 == Repo_create_alert(d, a1, t)
    IN  Result(d1, TRUE, Some(to_entity(NextId(d), d1[NextId(d)])), "")

AlertService_get_alert(d, alert_id) ==
    LET found == Repo_get_alert(d, alert_id)
    IN  Result(d, found # None, found, "")

\* update_alert applying the alert_type of the patch as well
Updated_entity_with_type(alert, update_data) ==
    LET a1 == IF Truthy(update_data.status)
              THEN [alert EXCEPT !.status = update_data.status] ELSE alert
        a2 == IF Truthy(update_data.severity)
              THEN [a1 EXCEPT !.severity = update_data.severity] ELSE a1
        a3 == IF update_data.details # None /\ update_data.details[1] # <<>>
              THEN [a2 EXCEPT !.details = update_data.details[1]] ELSE a2
        a4 == IF DOMAIN update_data.metadata # {}
              THEN [a3 EXCEPT !.metadata = dict_update(@, update_data.metadata)]
              ELSE a3
    IN  IF update_data.alert_type # None
        THEN [a4 EXCEPT !.alert_type = update_data.alert_type[1]] ELSE a4

\* the entity update_alert hands to the repository
Updated_entity(alert, update_data) ==
    LET a1 == IF Truthy(update_data.status)
              THEN [alert EXCEPT !.status = update_data.status] ELSE alert
        a2 == IF Truthy(update_data.severity)
              THEN [a1 EXCEPT !.severity = update_data.severity] ELSE a1
        a3 == IF update_data.details # None /\ update_data.details[1] # <<>>
              THEN [a2 EXCEPT !.details = update_data.details[1]] ELSE a2
        a4 == IF DOMAIN update_data.metadata # {}
              THEN [a3 EXCEPT !.metadata = dict_update(@, update_data.metadata)]
              ELSE a3
    IN  a4

\* AlertStatus(x) / AlertSeverity(x) raise ValueError for a value outside the enum
Update_raises(update_data) ==
    \/ Truthy(update_data.status) /\ update_data.status \notin AlertStatus
    \/ Truthy(update_data.severity) /\ update_data.severity \notin AlertSeverity

\* the entity as update_alert has changed it in memory when ValueError escapes:
\* a valid status is already assigned when the severity is the invalid field
Entity_at_raise(alert, update_data) ==
    IF Truthy(update_data.status) /\ update_data.status \in AlertStatus
    THEN [alert EXCEPT !.status = update_data.status]
    ELSE alert

\* update_alert writing through to the row whatever it has assigned so far
AlertService_update_alert_writethrough(d, alert_id, update_data) ==
    LET found == Repo_get_alert(d, alert_id) IN
    IF found = None THEN Result(d, FALSE, None, "")
    ELSE IF Update_raises(update_data)
         THEN Result(Repo_update_alert(d, Entity_at_raise(found[1], update_data)),
                     FALSE, None, "ValueError")
    ELSE LET d1 == Repo_update_alert(d, Updated_entity(found[1], update_data))
         IN  Result(d1, TRUE, Some(to_entity(alert_id, d1[alert_id])), "")

AlertService_update_alert(d, alert_id, update_data) ==
    LET found == Repo_get_alert(d, alert_id) IN
    IF found = None THEN Result(d, FALSE, None, "")
    ELSE IF Update_raises(update_data) THEN Result(d, FALSE, None, "ValueError")
    ELSE LET d1 == Repo_update_alert(d, Updated_entity(found[1], update_data))
         IN  Result(d1, TRUE, Some(to_entity(alert_id, d1[alert_id])), "")

\* acknowledge_alert leaving a resolved or false-positive alert as it is
Acknowledged_entity_guarded(alert, analyst, t) ==
    IF alert.status \in {"RESOLVED", "FALSE_POSITIVE"} THEN alert
    ELSE [alert EXCEPT
            !.status = "ACKNOWLEDGED",
            !.metadata = dict_set(dict_set(@, "acknowledged_by", analyst),
                                  "acknowledged_at", isoformat(t))]

\* the entity acknowledge_alert hands to the repository
Acknowledged_entity(alert, analyst, t) ==
    [alert EXCEPT
       !.status = "ACKNOWLEDGED",
       !.metadata = dict_set(dict_set(@, "acknowledged_by", analyst),
                             "acknowledged_at", isoformat(t))]

AlertService_acknowledge_alert(d, alert_id, analyst, t) ==
    LET found == Repo_get_alert(d, alert_id) IN
    IF found = None THEN Result(d, FALSE, None, "")
    ELSE Result(Repo_update_alert(d, Acknowledged_entity(found[1], analyst, t)),
                TRUE, None, "")

\* the entity resolve_alert hands to the repository
Resolved_entity(alert, analyst, t) ==
    [alert EXCEPT
       !.status = "RESOLVED",
       !.metadata = dict_set(dict_set(@, "resolved_by", analyst),
                             "resolved_at", isoformat(t))]

AlertService_resolve_alert(d, alert_id, analyst, t) ==
    LET found == Repo_get_alert(d, alert_id) IN
    IF found = None THEN Result(d, FALSE, None, "")
    ELSE Result(Repo_update_alert(d, Resolved_entity(found[1], analyst, t)),
                TRUE, None, "")

\* delete_alert without its lookup of the alert
AlertService_delete_alert_unchecked(d, alert_id) ==
    Result(Repo_delete_alert(d, alert_id), TRUE, None, "")

AlertService_delete_alert(d, alert_id) ==
    LET found == Repo_get_alert(d, alert_id) IN
    IF found = None THEN Result(d, FALSE, None, "")
    ELSE Result(Repo_delete_alert(d, alert_id), TRUE, None, "")

----------------------------------------------------------------------------
(* api/alerts.py: the alert routes.  Each yields the table it leaves, the  *)
(* HTTP status of the response and the service's return value.             *)

Response(op, id, arg, r, http) ==
    [op |-> op, id |-> id, arg |-> arg, ok |-> r.ok, http |-> http, out |-> r.out,
     exc |-> r.exc]

\* POST /api/alerts
api_create_alert(d, body, t) ==
    IF ~AlertCreate_valid(body) THEN Result(d, FALSE, None, "422")
    ELSE IF validate_ip_address_raises(body.source_ip)
            \/ validate_alert_type_raises(body.alert_type)
         THEN Result(d, FALSE, None, "422")
    ELSE AlertService_create_alert(
             d,
             Alert(None, body.alert_type, body.source_ip, body.details, Some(t),
                   IF body.severity # NoneStr THEN body.severity ELSE "MEDIUM",
                   "OPEN", NoneStr, None, body.metadata),
             t)

\* PUT /api/alerts/{alert_id}
api_update_alert(d, alert_id, body) ==
    IF ~AlertUpdate_valid(body) THEN Result(d, FALSE, None, "422")
    ELSE IF ~AlertService_get_alert(d, alert_id).ok THEN Result(d, FALSE, None, "")
    ELSE AlertService_update_alert(d, alert_id, body)

\* GET /api/alerts
api_list_alerts(d, skip, limit, filters) ==
    IF TruthyIp(filters.source_ip) /\ validate_ip_address_raises(filters.source_ip[1])
    THEN Result(d, FALSE, None, "422")
    ELSE AlertService_list_alerts_paginated(d, skip, limit, filters)

\* timedelta(hours=h) in clock ticks, as far as it tells instants apart:
\* timestamp >= now - timedelta(hours=h) for instants that are whole ticks
window_ticks(h) == (h * TicksPerDay) \div 24

\* GET /api/trends, t being what datetime.now() returns
api_get_trends(d, t) ==
    LET alerts == Repo_get_all_alerts(d)
        since(h) == SelectSeq(alerts, LAMBDA a : a.timestamp[1] >= t - window_ticks(h))
        last_24h_alerts == since(24)
        field(f(_)) == [i \in 1..Len(last_24h_alerts) |-> f(last_24h_alerts[i])]
    IN  Result(d, TRUE,
               [alerts |-> [p \in {"1h", "24h", "7d", "30d"} |->
                              Len(since(CASE p = "1h" -> 1
                                          [] p = "24h" -> 24
                                          [] p = "7d" -> 7 * 24
                                          [] p = "30d" -> 30 * 24))],
                top_sources |-> most_common(Counter(field(LAMBDA a : a.source_ip)), TOP_IPS),
                patterns |-> most_common(Counter(field(LAMBDA a : a.alert_type)),
                                         TOP_PATTERNS)],
               "")

\* the status code of a route's response: 404 when the service reports not-found
StatusOf(r, success) ==
    IF r.exc = "422" THEN 422
    ELSE IF r.exc # "" THEN 500
    ELSE IF r.ok THEN success ELSE 404

----------------------------------------------------------------------------
(* Inputs *)

Ids == 1..MaxId

Ip4(a, b, c, e) == [sep |-> ".", parts |-> <<a, b, c, e>>]

GoodBody ==
    [alert_type |-> <<"s", "s", "h">>,
     source_ip |-> Ip4(1, 2, 3, 4),
     details |-> <<"d">>,
     severity |-> NoneStr,
     metadata |-> EmptyDict]

LongBody ==
    [alert_type |-> Str(MaxAlertTypeLen, "x"),
     source_ip |-> [sep |-> ":", parts |-> <<8193, 3512, 0, 0, 0, 0, 0, 1>>],
     details |-> <<"d">>,
     severity |-> "HIGH",
     metadata |-> ("note" :> "n1")]

ValidBodies == {GoodBody, LongBody}

InvalidBodies ==
    {[GoodBody EXCEPT !.source_ip = Ip4(999, 1, 1, 1)],
     [GoodBody EXCEPT !.source_ip = [sep |-> ".", parts |-> <<1, 2, 3>>]],
     [GoodBody EXCEPT !.alert_type = <<>>],
     [GoodBody EXCEPT !.alert_type = <<" ", " ">>],
     [GoodBody EXCEPT !.alert_type = Str(MaxAlertTypeLen + 1, "x")],
     [GoodBody EXCEPT !.details = <<>>]}

CreateBodies == ValidBodies \cup InvalidBodies

NoPatch ==
    [alert_type |-> None, details |-> None, severity |-> NoneStr,
     status |-> NoneStr, assigned_to |-> NoneStr, metadata |-> EmptyDict]

UpdateBodies ==
    {[NoPatch EXCEPT !.status = "FALSE_POSITIVE"],
     [NoPatch EXCEPT !.status = "OPEN"],
     [NoPatch EXCEPT !.metadata = ("note" :> "n2")],
     [NoPatch EXCEPT !.severity = "CRITICAL", !.details = Some(<<"e">>),
                     !.metadata = ("tag" :> "t1"),
                     !.alert_type = Some(<<"w">>), !.assigned_to = "bob"],
     [NoPatch EXCEPT !.status = "BOGUS"]}

\* the query parameters of GET /api/alerts
NoFilter ==
    [severity |-> NoneStr, status |-> NoneStr, source_ip |-> None, alert_type |-> None,
     start_date |-> None, end_date |-> None]

Filters ==
    {NoFilter,
     [NoFilter EXCEPT !.severity = "HIGH"],
     [NoFilter EXCEPT !.status = "RESOLVED", !.alert_type = Some(<<"s", "s", "h">>),
                      !.end_date = Some(0)],
     [NoFilter EXCEPT !.source_ip = Some(Ip4(1, 2, 3, 4)), !.start_date = Some(MaxClock)],
     [NoFilter EXCEPT !.source_ip = Some(Ip4(999, 1, 1, 1))],
     [NoFilter EXCEPT !.alert_type = Some(<<>>)]}

\* <<skip, limit>> with skip >= 0 and 1 <= limit <= 100, as the route's
\* Query(...) admits them
Pages == {<<0, 1>>, <<1, 1>>, <<1, MaxId>>, <<MaxId, 1>>}

\* patch objects handed to AlertService.update_alert by a caller other than the
\* route: several fields, the invalid one second, first, or none
ServicePatches ==
    {[NoPatch EXCEPT !.status = "RESOLVED", !.severity = "BOGUS",
                     !.details = Some(<<"e">>), !.metadata = ("tag" :> "t1")],
     [NoPatch EXCEPT !.status = "BOGUS", !.severity = "HIGH",
                     !.details = Some(<<"e">>), !.metadata = ("tag" :> "t1")],
     [NoPatch EXCEPT !.status = "ACKNOWLEDGED", !.severity = "LOW"]}

\* entities handed to AlertService.create_alert by a caller other than the
\* route: one with every field set, one with the optional fields left unset
FullAlert ==
    Alert(None, <<"w", "e", "b">>, Ip4(5, 6, 7, 8), <<"d">>, Some(0), "HIGH", "RESOLVED",
          "alice", Some(0), ("note" :> "n1"))

BareAlert ==
    Alert(None, <<"s", "s", "h">>, Ip4(1, 2, 3, 4), <<"d">>, None, NoneStr, NoneStr,
          NoneStr, None, EmptyDict)

ServiceAlerts == {FullAlert, BareAlert}

----------------------------------------------------------------------------
(* The alert API as a state machine *)

NoReturn ==
    [op |-> "none", id |-> 0, arg |-> NoneStr, ok |-> TRUE, http |-> 0, out |-> None,
     exc |-> ""]

\* the callers that may have a call in flight at the same time
Callers == {"c1", "c2"}

\* a caller with no call begun: r and w number the store's transactions
\* (0: not made) in the order they commit
NoCall ==
    [op |-> "none", id |-> 0, arg |-> NoneStr, pc |-> "idle", alert |-> None,
     ok |-> FALSE, exc |-> "", r |-> 0, w |-> 0]

Init ==
    /\ db = <<>>
    /\ now = 0
    /\ ret = NoReturn
    /\ steps = 0
    /\ ent = None
    /\ logs = <<>>
    /\ run = None
    /\ calls = [c \in Callers |-> NoCall]

\* time passes
Tick ==
    /\ now < MaxClock
    /\ now' = now + 1
    /\ UNCHANGED <<db, ret, steps, ent, logs, run, calls>>

\* one call run to completion: r is what it computed, http the status code of
\* the response (0 for a call made on the service, not through a route)
Served(r, op, id, arg, http) ==
    /\ steps < MaxSteps
    /\ steps' = steps + 1
    /\ db' = r.db
    /\ ret' = Response(op, id, arg, r, http)
    /\ UNCHANGED <<now, ent, logs, run, calls>>

\* one request served to completion: r is what the route computed
Call(r, op, id, arg, success) == Served(r, op, id, arg, StatusOf(r, success))

CreateStep(body) ==
    /\ NextId(db) <= MaxId
    /\ Call(api_create_alert(db, body, now), "create_alert", NextId(db), NoneStr, 201)

GetStep(id) ==
    Call(AlertService_get_alert(db, id), "get_alert", id, NoneStr, 200)

UpdateStep(id, body) ==
    Call(api_update_alert(db, id, body), "update_alert", id, NoneStr, 200)

AcknowledgeStep(id, analyst) ==
    Call(AlertService_acknowledge_alert(db, id, analyst, now),
         "acknowledge_alert", id, analyst, 200)

ResolveStep(id, analyst) ==
    Call(AlertService_resolve_alert(db, id, analyst, now),
         "resolve_alert", id, analyst, 200)

DeleteStep(id) ==
    Call(AlertService_delete_alert(db, id), "delete_alert", id, NoneStr, 200)

ListStep(skip, limit, filters) ==
    Call(api_list_alerts(db, skip, limit, filters), "list_alerts", 0,
         [skip |-> skip, limit |-> limit, filters |-> filters], 200)

\* GET /api/stats
StatsStep ==
    Call(AlertService_get_alert_statistics(db, now), "get_stats", 0, [now |-> now], 200)

\* GET /api/trends
TrendsStep ==
    Call(api_get_trends(db, now), "get_trends", 0, [now |-> now], 200)

\* AlertService.create_alert called directly with an entity
ServiceCreateStep(alert) ==
    /\ NextId(db) <= MaxId
    /\ Served(AlertService_create_alert(db, alert, now),
              "service.create_alert", NextId(db), NoneStr, 0)

\* AlertService.update_alert called directly with a patch object
ServiceUpdateStep(id, patch) ==
    Served(AlertService_update_alert(db, id, patch), "service.update_alert", id, patch, 0)

CreateAlert == \E body \in CreateBodies : CreateStep(body)

GetAlert == \E id \in Ids : GetStep(id)

UpdateAlert == \E id \in Ids, body \in UpdateBodies : UpdateStep(id, body)

AcknowledgeAlert == \E id \in Ids, analyst \in Analysts : AcknowledgeStep(id, analyst)

ResolveAlert == \E id \in Ids, analyst \in Analysts : ResolveStep(id, analyst)

DeleteAlert == \E id \in Ids : DeleteStep(id)

ListAlerts ==
    \E page \in Pages, filters \in Filters : ListStep(page[1], page[2], filters)

GetStats == StatsStep

GetTrends == TrendsStep

ServiceCreateAlert == \E alert \in ServiceAlerts : ServiceCreateStep(alert)

ServiceUpdateAlert == \E id \in Ids, patch \in ServicePatches : ServiceUpdateStep(id, patch)

Next ==
    \/ Tick
    \/ CreateAlert
    \/ GetAlert
    \/ UpdateAlert
    \/ AcknowledgeAlert
    \/ ResolveAlert
    \/ DeleteAlert
    \/ ListAlerts
    \/ GetStats
    \/ GetTrends
    \/ ServiceCreateAlert
    \/ ServiceUpdateAlert

Spec == Init /\ [][Next]_vars

----------------------------------------------------------------------------
(* The Alert entity on its own: an entity is built in memory and its       *)
(* methods are called on it, with no store behind it.                      *)

EntNew ==
    /\ ent = None
    /\ ent' = Some(Alert(None, <<"s", "s", "h">>, Ip4(1, 2, 3, 4), <<"d">>, Some(now),
                         "MEDIUM", "OPEN", NoneStr, None, EmptyDict))
    /\ UNCHANGED <<db, now, ret, steps, logs, run, calls>>

EntAcknowledge ==
    \E analyst \in Analysts :
        /\ ent # None
        /\ ent' = Some(Alert_acknowledge(ent[1], analyst))
        /\ UNCHANGED <<db, now, ret, steps, logs, run, calls>>

EntResolve ==
    \E analyst \in Analysts :
        /\ ent # None
        /\ ent' = Some(Alert_resolve(ent[1], analyst, now))
        /\ UNCHANGED <<db, now, ret, steps, logs, run, calls>>

EntMarkFalsePositive ==
    \E analyst \in Analysts :
        /\ ent # None
        /\ ent' = Some(Alert_mark_false_positive(ent[1], analyst, now))
        /\ UNCHANGED <<db, now, ret, steps, logs, run, calls>>

NextEntity ==
    \/ Tick
    \/ EntNew
    \/ EntAcknowledge
    \/ EntResolve
    \/ EntMarkFalsePositive

SpecEntity == Init /\ [][NextEntity]_vars

----------------------------------------------------------------------------
(* Service calls of several callers interleaving on the shared store.      *)
(* AlertService holds no lock and the rows carry no version, so between    *)
(* a call's get_alert and its update_alert / delete_alert the other        *)
(* callers' transactions commit.                                           *)

RaceOps == {"acknowledge_alert", "resolve_alert", "update_alert", "delete_alert"}

\* the patch of the update_alert calls: metadata only
RacePatches == {[NoPatch EXCEPT !.metadata = ("note" :> "n2")]}

\* the second argument of a call
RaceArgs(op) ==
    CASE op \in {"acknowledge_alert", "resolve_alert"} -> Analysts
      [] op = "update_alert" -> RacePatches
      [] op = "delete_alert" -> {NoneStr}

\* the number of the last transaction committed for a caller
LastTxn(cs) ==
    LET S == {cs[c].r : c \in Callers} \cup {cs[c].w : c \in Callers}
    IN  CHOOSE n \in S : \A m \in S : m <= n

\* the first statement of a call: alert = self.alert_repo.get_alert(alert_id);
\* a call that finds no alert returns False / None at once
ReadStep(c, op, id, arg) ==
    /\ calls[c].pc = "idle"
    /\ LET found == Repo_get_alert(db, id)
           begun == [NoCall EXCEPT !.op = op, !.id = id, !.arg = arg,
                                   !.r = LastTxn(calls) + 1]
       IN  calls' = [calls EXCEPT ![c] =
                       IF found = None THEN [begun EXCEPT !.pc = "done"]
                       ELSE [begun EXCEPT !.pc = "read", !.alert = found]]
    /\ UNCHANGED <<db, now, ret, steps, ent, logs, run>>

\* the entity a call hands to update_alert: the alert it read, changed in memory
Entity_to_write(call, t) ==
    CASE call.op = "acknowledge_alert" -> Acknowledged_entity(call.alert[1], call.arg, t)
      [] call.op = "resolve_alert" -> Resolved_entity(call.alert[1], call.arg, t)
      [] call.op = "update_alert" -> Updated_entity(call.alert[1], call.arg)

\* the rest of a call that found its alert: the repository's update_alert or
\* delete_alert, which looks the row up again.  update_alert on a row that is
\* gone writes nothing and raises AttributeError from _to_entity(None);
\* delete_alert on a row that is gone returns False.
WriteStep(c) ==
    /\ calls[c].pc = "read"
    /\ LET call == calls[c]
           n == LastTxn(calls) + 1
           present == call.id \in DOMAIN db
       IN  IF call.op = "delete_alert"
           THEN /\ db' = Repo_delete_alert(db, call.id)
                /\ calls' = [calls EXCEPT ![c] =
                               [call EXCEPT !.pc = "done", !.ok = present, !.w = n]]
           ELSE IF call.op = "update_alert" /\ Update_raises(call.arg)
           THEN /\ db' = db
                /\ calls' = [calls EXCEPT ![c] =
                               [call EXCEPT !.pc = "done", !.exc = "ValueError"]]
           ELSE /\ db' = Repo_update_alert(db, Entity_to_write(call, now))
                /\ calls' = [calls EXCEPT ![c] =
                               [call EXCEPT !.pc = "done", !.ok = present, !.w = n,
                                            !.exc = IF present THEN ""
                                                    ELSE "AttributeError"]]
    /\ UNCHANGED <<now, ret, steps, ent, logs, run>>

BeginCall ==
    \E c \in Callers, op \in RaceOps, id \in Ids :
        \E arg \in RaceArgs(op) : ReadStep(c, op, id, arg)

FinishCall == \E c \in Callers : WriteStep(c)

NextRace ==
    \/ ServiceCreateAlert
    \/ BeginCall
    \/ FinishCall

SpecRace == Init /\ [][NextRace]_vars

----------------------------------------------------------------------------
(* Properties of the alert lifecycle *)

Terminal == {"RESOLVED", "FALSE_POSITIVE"}

\* the alert get_alert returns for a stored id
Got(d, id) == AlertService_get_alert(d, id).out[1]

\* the edges of the lifecycle state machine
Edge(s, t) ==
    \/ s = t
    \/ s = "OPEN" /\ t \in {"ACKNOWLEDGED", "RESOLVED", "FALSE_POSITIVE"}
    \/ s = "ACKNOWLEDGED" /\ t \in {"RESOLVED", "FALSE_POSITIVE"}

\* C1: an alert that is RESOLVED or FALSE_POSITIVE never changes status again,
\* and every change of status follows an edge of the state machine
\* OPEN -> ACKNOWLEDGED -> {RESOLVED, FALSE_POSITIVE}, OPEN -> {RESOLVED, FALSE_POSITIVE}.
C1_StatusFollowsStateMachine ==
    [][\A id \in DOMAIN db \cap DOMAIN db' :
          /\ db[id].status \in Terminal => db'[id].status = db[id].status
          /\ Edge(db[id].status, db'[id].status)]_vars

\* a resolved alert has just been acknowledged again
C1_Reacknowledged ==
    /\ ret.op = "acknowledge_alert"
    /\ ret.ok
    /\ "resolved_by" \in DOMAIN Got(db, ret.id).metadata
    /\ Got(db, ret.id).status = "ACKNOWLEDGED"

\* C2: for every stored alert, as get_alert returns it, resolved_at is set
\* exactly when the status is RESOLVED or FALSE_POSITIVE.
C2_ResolvedAtIffTerminal ==
    \A id \in DOMAIN db :
        (Got(db, id).resolved_at # None) <=> (Got(db, id).status \in Terminal)

\* C6: resolve_alert(id, analyst) right after the create_alert of alert id
\* (assigned_to unset) leaves an alert that get_alert returns with status
\* RESOLVED, resolved_at set and assigned_to = analyst.
C6_ResolveAfterCreate ==
    [][\A id \in Ids, analyst \in Analysts :
          ( /\ ret.op = "create_alert" /\ ret.ok /\ ret.id = id
            /\ Got(db, id).assigned_to = NoneStr
            /\ ResolveStep(id, analyst) )
          => /\ Got(db', id).status = "RESOLVED"
             /\ Got(db', id).resolved_at # None
             /\ Got(db', id).assigned_to = analyst]_vars

\* C7: resolve_alert(id, a2) right after acknowledge_alert(id, a1), a1 # a2,
\* leaves the alert with assigned_to = a1.
C7_ResolveKeepsAssignee ==
    [][\A id \in Ids, a1 \in Analysts, a2 \in Analysts :
          ( /\ a1 # a2
            /\ ret.op = "acknowledge_alert" /\ ret.ok /\ ret.id = id /\ ret.arg = a1
            /\ ResolveStep(id, a2) )
          => Got(db', id).assigned_to = a1]_vars

\* C8: no call removes a metadata key of a stored alert, and update_alert with a
\* metadata patch keeps every key the patch does not name, with its value, and
\* adds or overwrites exactly the keys the patch names.
C8_MetadataAdditive ==
    [][/\ \A id \in DOMAIN db \cap DOMAIN db' :
             DOMAIN Got(db, id).metadata \subseteq DOMAIN Got(db', id).metadata
       /\ \A id \in DOMAIN db, body \in UpdateBodies :
             (UpdateStep(id, body) /\ AlertUpdate_valid(body))
             => LET old == Got(db, id).metadata
                    new == Got(db', id).metadata
                    patch == body.metadata
                IN  /\ DOMAIN new = DOMAIN old \cup DOMAIN patch
                    /\ \A k \in DOMAIN patch : new[k] = patch[k]
                    /\ \A k \in DOMAIN old \ DOMAIN patch : new[k] = old[k]]_vars

\* a metadata patch was applied to an alert that had other keys
C8_PatchedBesideOtherKeys ==
    /\ ret.op = "update_alert"
    /\ ret.ok
    /\ {"note", "tag"} \subseteq DOMAIN Got(db, ret.id).metadata

\* C9: get_alert, update_alert, acknowledge_alert, resolve_alert and
\* delete_alert with an id that is not stored report not-found (None / False,
\* HTTP 404) and leave the table as it was.
C9_NotFoundChangesNothing ==
    [][\A id \in Ids \ DOMAIN db :
          ( \/ GetStep(id)
            \/ \E body \in UpdateBodies : AlertUpdate_valid(body) /\ UpdateStep(id, body)
            \/ \E analyst \in Analysts : AcknowledgeStep(id, analyst)
            \/ \E analyst \in Analysts : ResolveStep(id, analyst)
            \/ DeleteStep(id) )
          => /\ db' = db
             /\ ~ret'.ok
             /\ ret'.out = None
             /\ ret'.http = 404]_vars

\* a call on an id that is not stored was answered, with another alert stored
C9_NotFoundAnswered ==
    /\ ret.op \in {"update_alert", "acknowledge_alert", "resolve_alert", "delete_alert"}
    /\ ret.id \notin DOMAIN db
    /\ ret.http = 404
    /\ DOMAIN db # {}

\* the create requests that must be refused
WhitespaceOnly(s) == \A i \in 1..Len(s) : s[i] = " "

InvalidCreate(body) ==
    \/ ~ip_address_ok(body.source_ip)
    \/ WhitespaceOnly(body.alert_type)
    \/ Len(body.alert_type) > MaxAlertTypeLen
    \/ body.details = <<>>

\* C10: POST /api/alerts with a source_ip that is no IP literal, an alert_type
\* that is empty, whitespace-only or longer than 100 characters, or empty
\* details is answered 422 and stores nothing.
C10_InvalidCreateRejected ==
    [][\A body \in CreateBodies :
          (InvalidCreate(body) /\ CreateStep(body))
          => /\ ret'.http = 422
             /\ ~ret'.ok
             /\ db' = db]_vars

\* an invalid create request was rejected while an alert was stored
C10_Rejected ==
    /\ ret.op = "create_alert"
    /\ ret.http = 422
    /\ DOMAIN db # {}

\* a patch with a status or severity value outside its enum
InvalidPatch(patch) ==
    \/ patch.status \notin AlertStatus \cup {NoneStr}
    \/ patch.severity \notin AlertSeverity \cup {NoneStr}

\* C11: update_alert on a stored alert with a patch of several fields, one of
\* them (status or severity, in either position) outside its enum, fails and
\* leaves every field of every stored alert as it was.
C11_NoPartialUpdate ==
    [][\A id \in DOMAIN db, patch \in ServicePatches :
          (InvalidPatch(patch) /\ ServiceUpdateStep(id, patch))
          => /\ db' = db
             /\ ret'.exc = "ValueError"
             /\ ~ret'.ok
             /\ ret'.out = None]_vars

\* update_alert has failed on an invalid severity given after a valid status
\* that differs from the stored one
C11_FailedAfterValidField ==
    /\ ret.op = "service.update_alert"
    /\ ret.exc = "ValueError"
    /\ ret.id \in DOMAIN db
    /\ ret.arg.status \in AlertStatus
    /\ ret.arg.status # db[ret.id].status

\* C12: get_alert(id) after create_alert(a) returns a in every field but the
\* id, a timestamp that was unset, and a severity or status that was unset.
C12_CreateGetRoundTrip ==
    [][\A a \in ServiceAlerts :
          ServiceCreateStep(a)
          => LET g == Got(db', NextId(db))
             IN  /\ g.alert_type = a.alert_type
                 /\ g.source_ip = a.source_ip
                 /\ g.details = a.details
                 /\ a.timestamp # None => g.timestamp = a.timestamp
                 /\ a.severity # NoneStr => g.severity = a.severity
                 /\ a.status # NoneStr => g.status = a.status
                 /\ g.assigned_to = a.assigned_to
                 /\ g.resolved_at = a.resolved_at
                 /\ g.metadata = a.metadata]_vars

\* the last call was a listing that was answered with a page
Listed == ret.op = "list_alerts" /\ ret.http = 200

Min(a, b) == IF a < b THEN a ELSE b
Max(a, b) == IF a > b THEN a ELSE b

Matches(a, filters) ==
    /\ filters.severity # NoneStr => a.severity = filters.severity
    /\ filters.status # NoneStr => a.status = filters.status
    /\ filters.source_ip # None => a.source_ip = filters.source_ip[1]
    /\ filters.alert_type # None => a.alert_type = filters.alert_type[1]
    /\ filters.start_date # None => a.timestamp[1] >= filters.start_date[1]
    /\ filters.end_date # None => a.timestamp[1] <= filters.end_date[1]

\* C14: every alert of a listing's page satisfies every filter field that is
\* given, and total is the number of stored alerts that satisfy them all.
C14_FiltersNarrow ==
    Listed
    => /\ \A k \in 1..Len(ret.out.items) : Matches(ret.out.items[k], ret.arg.filters)
       /\ ret.out.total =
             Cardinality({id \in DOMAIN db : Matches(Got(db, id), ret.arg.filters)})

\* the stored alerts for which field f has value v
Having(f(_), v) == {id \in DOMAIN db : f(Got(db, id)) = v}

\* a distribution map holds exactly the values that occur, each with the
\* number of stored alerts that have it
ExactDistribution(dist, f(_)) ==
    /\ DOMAIN dist = {f(Got(db, id)) : id \in DOMAIN db}
    /\ \A v \in DOMAIN dist : dist[v] = Cardinality(Having(f, v))

\* C15: the statistics describe the store as it is: total_alerts is the number
\* of stored alerts, the status, severity and alert_type distributions hold
\* the exact count of each value that occurs (no entry on an empty store), and
\* unique_ips is the number of distinct source_ip values.
C15_StatisticsExact ==
    ret.op = "get_stats"
    => /\ ret.out.total_alerts = Cardinality(DOMAIN db)
       /\ ExactDistribution(ret.out.status_distribution, LAMBDA a : a.status)
       /\ ExactDistribution(ret.out.severity_distribution, LAMBDA a : a.severity)
       /\ ExactDistribution(ret.out.alert_type_distribution, LAMBDA a : a.alert_type)
       /\ ret.out.unique_ips = Cardinality({Got(db, id).source_ip : id \in DOMAIN db})

\* statistics were taken of two stored alerts that share one address
C15_TwoAlertsOneAddress ==
    /\ ret.op = "get_stats"
    /\ ret.out.total_alerts = 2
    /\ ret.out.unique_ips = 1

\* C16: recent_alerts_24h is the number of stored alerts with
\* now - timestamp <= 24 hours, the alert exactly 24 hours old included.
C16_RecentWindowInclusive ==
    ret.op = "get_stats"
    => ret.out.recent_alerts_24h =
         Cardinality({id \in DOMAIN db :
                        ret.arg.now - Got(db, id).timestamp[1] <= TicksPerDay})

----------------------------------------------------------------------------
(* domain/rules.py: the detection rules.                                   *)
(*                                                                         *)
(* A log record is [log_type, ip, status_code, timestamp, ts_type].  The   *)
(* ip NoKey stands for a record with no "ip" key, "" for an empty ip.      *)
(* ts_type is the Python type of the timestamp value: "datetime" for a     *)
(* record built in memory, "str" for one read back from a log file.  A     *)
(* record always has a timestamp; a status_code that is absent reads as    *)
(* 200, like the default of l.get("status_code", 200).                     *)
(* A rule yields [exc, events]: the exception that escapes it ("" for      *)
(* none) and the list of detections it returns.                            *)

WINDOW_SECONDS == 60
SSH_THRESHOLD == 5
WEB_THRESHOLD == 10

NoKey == "<no key>"

Detections(exc, events) == [exc |-> exc, events |-> events]

\* logs.sort(key=lambda l: l["timestamp"]): a stable sort, by insertion
RECURSIVE insert_sorted(_, _)
insert_sorted(sorted, l) ==
    IF sorted = <<>> THEN <<l>>
    ELSE IF sorted[Len(sorted)].timestamp <= l.timestamp THEN Append(sorted, l)
    ELSE Append(insert_sorted(SubSeq(sorted, 1, Len(sorted) - 1), l),
                sorted[Len(sorted)])

RECURSIVE sort_by_timestamp(_)
sort_by_timestamp(ls) ==
    IF ls = <<>> THEN <<>>
    ELSE insert_sorted(sort_by_timestamp(SubSeq(ls, 1, Len(ls) - 1)), ls[Len(ls)])

\* the whole list up to index i taken for the slice
trailing_prefix(ls, i, threshold) == SubSeq(ls, 1, i)

\* logs[max(0, i - threshold + 1) : i + 1], for the 1-based index i
trailing_slice(ls, i, threshold) ==
    SubSeq(ls, IF i - threshold + 1 > 1 THEN i - threshold + 1 ELSE 1, i)

\* the condition of the window comprehension of each rule
ssh_match(l, ip) == l.ip = ip
web_match(l, ip) == l.ip = ip /\ l.status_code >= 400

\* a window accepted whatever time it spans
within_window_always(window, window_seconds) == TRUE

\* (t1 - t0).total_seconds() <= window_seconds, t0 and t1 being the timestamps
\* of the first and last record of the window
within_window(window, window_seconds) ==
    window[Len(window)].timestamp - window[1].timestamp <= window_seconds

\* the caller's list sorted in place by the rule
caller_logs_sorted(ls) == sort_by_timestamp(ls)

\* the caller's list after a rule has run on it: the rule binds its local
\* name to a new, filtered list and sorts that one
caller_logs_after(ls) == ls

\* the loop of a rule from index i on, events being what is appended so far;
\* web tells which rule's window condition applies
RECURSIVE scan(_, _, _, _, _, _)
scan(ls, i, window_seconds, threshold, web, events) ==
    IF i > Len(ls) THEN Detections("", events)
    ELSE
      LET ip == ls[i].ip
          slice == trailing_slice(ls, i, threshold)
          window == SelectSeq(slice,
                              LAMBDA l : IF web THEN web_match(l, ip) ELSE ssh_match(l, ip))
      IN  IF ip = NoKey \/ ip = ""
          THEN scan(ls, i + 1, window_seconds, threshold, web, events)
          ELSE IF \E j \in 1..Len(slice) : slice[j].ip = NoKey
          THEN Detections("KeyError", <<>>)
          ELSE IF Len(window) >= threshold
          THEN IF window[1].ts_type # "datetime"
               THEN Detections("TypeError", <<>>)
               ELSE IF within_window(window, window_seconds)
               THEN scan(ls, i + 1, window_seconds, threshold, web,
                         Append(events, [ip |-> ip,
                                         start |-> window[1].timestamp,
                                         end |-> window[Len(window)].timestamp,
                                         count |-> Len(window)]))
               ELSE scan(ls, i + 1, window_seconds, threshold, web, events)
          ELSE scan(ls, i + 1, window_seconds, threshold, web, events)

\* the rule reporting a source once only
analyze_ssh_bruteforce_once(ls, window_seconds, threshold) ==
    LET r == scan(sort_by_timestamp(SelectSeq(ls, LAMBDA l : l.log_type = "sshd")),
                  1, window_seconds, threshold, FALSE, <<>>)
    IN  Detections(r.exc, IF r.events = <<>> THEN <<>> ELSE <<r.events[1]>>)

\* the rule run on the records of every log type
analyze_ssh_bruteforce_any_type(ls, window_seconds, threshold) ==
    scan(sort_by_timestamp(ls), 1, window_seconds, threshold, FALSE, <<>>)

analyze_ssh_bruteforce(ls, window_seconds, threshold) ==
    scan(sort_by_timestamp(SelectSeq(ls, LAMBDA l : l.log_type = "sshd")),
         1, window_seconds, threshold, FALSE, <<>>)

analyze_web_attacks(ls, window_seconds, threshold) ==
    scan(sort_by_timestamp(SelectSeq(ls, LAMBDA l : l.log_type = "nginx")),
         1, window_seconds, threshold, TRUE, <<>>)

----------------------------------------------------------------------------
(* infrastructure/processor.py and the process command of cli.py *)

\* what a run leaves behind: its parameters, whether it returned ("completed")
\* or an exception escaped ("failed"), and what each rule yielded
Outcome(cmd, w, ts, tw, ssh, web) ==
    [cmd |-> cmd, window_seconds |-> w, ssh_threshold |-> ts, web_threshold |-> tw,
     status |-> IF ssh.exc = "" /\ web.exc = "" THEN "completed" ELSE "failed",
     ssh |-> ssh,
     web |-> web]

\* a rule that is never reached because an exception escaped before it
NotRun == Detections("", <<>>)

\* LogProcessor.process_logs: both rules with their default parameters
process_logs(ls) ==
    LET ssh_events == analyze_ssh_bruteforce(ls, WINDOW_SECONDS, SSH_THRESHOLD)
        web_events == analyze_web_attacks(ls, WINDOW_SECONDS, WEB_THRESHOLD)
    IN  Outcome("process_logs", WINDOW_SECONDS, SSH_THRESHOLD, WEB_THRESHOLD,
                ssh_events,
                IF ssh_events.exc = "" THEN web_events ELSE NotRun)

\* json.load of the log file written by json.dump(logs, default=str): every
\* timestamp comes back as a str
json_load_logs(ls) == [i \in 1..Len(ls) |-> [ls[i] EXCEPT !.ts_type = "str"]]

\* the process command: load the file, run process_logs, echo the results
process_command(ls) ==
    [process_logs(json_load_logs(ls)) EXCEPT !.cmd = "process"]

----------------------------------------------------------------------------
(* The detector as a state machine: a batch is given, and the rules are    *)
(* run on it, by process_logs, by the process command, or one by one with  *)
(* explicit parameters.                                                    *)

MaxBatch == 3
MaxExtra == 1

Event(log_type, ip, status_code, t) ==
    [log_type |-> log_type, ip |-> ip, status_code |-> status_code,
     timestamp |-> t, ts_type |-> "datetime"]

Events ==
    {Event("sshd", "A", 200, 0), Event("sshd", "A", 200, 1), Event("sshd", "A", 200, 2),
     Event("sshd", "B", 200, 1), Event("sshd", "", 200, 1), Event("sshd", NoKey, 200, 1),
     Event("nginx", "A", 500, 0), Event("nginx", "A", 500, 1),
     Event("nginx", "A", 200, 1)}

\* n records of one source, gap seconds apart
Burst(log_type, status_code, n, gap) ==
    [i \in 1..n |-> Event(log_type, "A", status_code, (i - 1) * gap)]

Gaps == {1, 20}

\* batches of both log types or of both kinds of response: error responses
\* with another response between them, and a burst of each log type from
\* one source
Mixed ==
    {<<Event("nginx", "A", 500, 0), Event("nginx", "A", 200, 1), Event("nginx", "A", 500, 2)>>,
     Burst("sshd", 200, SSH_THRESHOLD, 1) \o Burst("nginx", 500, WEB_THRESHOLD, 1)}

Batches ==
    UNION {[1..k -> Events] : k \in 0..MaxBatch}
    \cup Mixed
    \cup {Burst("sshd", 200, n, gap) : n \in 1..(SSH_THRESHOLD + MaxExtra), gap \in Gaps}
    \cup {Burst("nginx", 500, n, gap) : n \in 1..(WEB_THRESHOLD + MaxExtra), gap \in Gaps}

Windows == {1, WINDOW_SECONDS}
Thresholds == {2, MaxBatch}

InitDetect ==
    /\ db = <<>>
    /\ now = 0
    /\ ret = NoReturn
    /\ steps = 0
    /\ ent = None
    /\ logs \in Batches
    /\ run = None
    /\ calls = [c \in Callers |-> NoCall]

\* LogProcessor().process_logs(logs) on the batch in memory
ProcessLogs ==
    /\ run' = Some(process_logs(logs))
    /\ logs' = caller_logs_after(caller_logs_after(logs))
    /\ UNCHANGED <<db, now, ret, steps, ent, calls>>

\* siem-lite process --input <the file holding the batch>
ProcessCommand ==
    /\ run' = Some(process_command(logs))
    /\ UNCHANGED <<db, now, ret, steps, ent, logs, calls>>

\* both rules called with explicit window_seconds and threshold
RunRules ==
    \E w \in Windows, t \in Thresholds :
        /\ run' = Some(Outcome("rules", w, t, t,
                               analyze_ssh_bruteforce(logs, w, t),
                               analyze_web_attacks(caller_logs_after(logs), w, t)))
        /\ logs' = caller_logs_after(caller_logs_after(logs))
        /\ UNCHANGED <<db, now, ret, steps, ent, calls>>

\* each rule called twice in a row on the same list, with the same parameters
RunTwice ==
    \E w \in Windows, t \in Thresholds :
        LET after1 == caller_logs_after(logs)
            after2 == caller_logs_after(after1)
            after3 == caller_logs_after(after2)
        IN  /\ run' = Some([cmd |-> "twice", window_seconds |-> w, threshold |-> t,
                            first |-> [ssh |-> analyze_ssh_bruteforce(logs, w, t),
                                       web |-> analyze_web_attacks(after2, w, t)],
                            second |-> [ssh |-> analyze_ssh_bruteforce(after1, w, t),
                                        web |-> analyze_web_attacks(after3, w, t)]])
            /\ logs' = caller_logs_after(after3)
            /\ UNCHANGED <<db, now, ret, steps, ent, calls>>

NextDetect ==
    \/ ProcessLogs
    \/ ProcessCommand
    \/ RunRules
    \/ RunTwice

SpecDetect == InitDetect /\ [][NextDetect]_vars

----------------------------------------------------------------------------
(* Properties of the detector *)

\* the detections of both rules, in one list
AllDetections(o) == o.ssh.events \o o.web.events

\* C3: when a processing run (process_logs, as the process command invokes
\* it) has completed, the alert store holds an alert for each detection the
\* rules emitted.
C3_DetectionsBecomeAlerts ==
    (run # None /\ run[1].cmd \in {"process_logs", "process"}
       /\ run[1].status = "completed")
    => Cardinality(DOMAIN db) >= Len(AllDetections(run[1]))

\* the sshd records of ip in a batch, as a set of indices
SshOf(ls, ip) == {i \in 1..Len(ls) : ls[i].log_type = "sshd" /\ ls[i].ip = ip}

\* ip has threshold sshd records that lie within window_seconds of each other
Qualifies(ls, ip, window_seconds, threshold) ==
    \E S \in SUBSET SshOf(ls, ip) :
        /\ Cardinality(S) = threshold
        /\ \A a \in S, b \in S : ls[a].timestamp - ls[b].timestamp <= window_seconds

WellFormed(ls) == \A i \in 1..Len(ls) : ls[i].ip \notin {NoKey, ""}

\* C4: on a batch of well-formed records, analyze_ssh_bruteforce emits a
\* detection for every source IP that has threshold sshd records within
\* window_seconds, whatever other sources' records lie between them.
C4_InterleavedSourcesDetected ==
    (run # None /\ run[1].cmd = "rules" /\ WellFormed(logs))
    => \A ip \in {"A", "B"} :
          Qualifies(logs, ip, run[1].window_seconds, run[1].ssh_threshold)
          => \E j \in 1..Len(run[1].ssh.events) : run[1].ssh.events[j].ip = ip

\* a batch without its malformed records
WithoutMalformed(ls) == SelectSeq(ls, LAMBDA l : l.ip \notin {NoKey, ""})

\* C5: both rules return normally on a batch with malformed records (no ip
\* key, or an empty ip) and return what they return for the batch without them.
C5_MalformedSkipped ==
    (run # None /\ run[1].cmd = "rules")
    => /\ run[1].ssh.exc = ""
       /\ run[1].web.exc = ""
       /\ run[1].ssh = analyze_ssh_bruteforce(WithoutMalformed(logs),
                            run[1].window_seconds, run[1].ssh_threshold)
       /\ run[1].web = analyze_web_attacks(WithoutMalformed(logs),
                            run[1].window_seconds, run[1].web_threshold)

OneSource(ls, log_type) ==
    /\ ls # <<>>
    /\ ls[1].ip \notin {NoKey, ""}
    /\ \A i \in 1..Len(ls) : ls[i].log_type = log_type /\ ls[i].ip = ls[1].ip

\* the time between the earliest and the latest record of a batch
Span(ls) ==
    LET ts == {ls[i].timestamp : i \in 1..Len(ls)}
    IN  (CHOOSE t \in ts : \A u \in ts : u <= t) - (CHOOSE t \in ts : \A u \in ts : t <= u)

\* a run of the rules on the list in memory (timestamps are datetime values)
RanInMemory == run # None /\ run[1].cmd \in {"rules", "process_logs"}

\* C18: for a batch of n >= threshold sshd records of one source, all within
\* window_seconds of each other, analyze_ssh_bruteforce returns at least one
\* detection, each for that source and with count = threshold.
C18_BurstDetected ==
    ( /\ RanInMemory
      /\ OneSource(logs, "sshd")
      /\ Len(logs) >= run[1].ssh_threshold
      /\ Span(logs) <= run[1].window_seconds )
    => LET events == run[1].ssh.events
       IN  /\ run[1].ssh.exc = ""
           /\ Len(events) >= 1
           /\ \A j \in 1..Len(events) :
                 /\ events[j].ip = logs[1].ip
                 /\ events[j].count = run[1].ssh_threshold

\* a burst longer than the threshold was detected with the default parameters
C18_LongBurstDetected ==
    /\ run # None
    /\ run[1].cmd = "process_logs"
    /\ logs = Burst("sshd", 200, SSH_THRESHOLD + 1, 1)
    /\ run[1].ssh.events # <<>>

\* C19: every detection of either rule spans at most window_seconds, and a
\* batch of threshold records of one source spread over more than
\* window_seconds yields no detection.
C19_DetectionsWithinWindow ==
    RanInMemory
    => /\ \A j \in 1..Len(AllDetections(run[1])) :
             AllDetections(run[1])[j].end - AllDetections(run[1])[j].start
               <= run[1].window_seconds
       /\ ( /\ OneSource(logs, "sshd")
            /\ Len(logs) = run[1].ssh_threshold
            /\ Span(logs) > run[1].window_seconds )
          => run[1].ssh.events = <<>>
       /\ ( /\ OneSource(logs, "nginx")
            /\ Len(logs) = run[1].web_threshold
            /\ Span(logs) > run[1].window_seconds )
          => run[1].web.events = <<>>

\* threshold records of one source spread over more than the window were
\* run through the rule and nothing was detected
C19_SpreadBurstIgnored ==
    /\ run # None
    /\ run[1].cmd = "process_logs"
    /\ logs = Burst("sshd", 200, SSH_THRESHOLD, 20)
    /\ run[1].status = "completed"
    /\ run[1].ssh.events = <<>>

\* the detections a rule owes a batch of n records of one source, all within
\* the window: one per index i >= threshold of the sorted records, over the
\* threshold records that end at i
OnePerIndex(events, ls, threshold) ==
    LET sorted == sort_by_timestamp(ls)
    IN  /\ Len(events) = Len(ls) - threshold + 1
        /\ \A j \in 1..Len(events) :
              events[j] = [ip |-> ls[1].ip,
                           start |-> sorted[j].timestamp,
                           end |-> sorted[j + threshold - 1].timestamp,
                           count |-> threshold]

\* C20: for a batch of n >= threshold qualifying records of one source, all
\* within window_seconds, a rule returns exactly n - threshold + 1 detections,
\* one for each index i >= threshold - 1 of the sorted records.
C20_OneDetectionPerIndex ==
    RanInMemory
    => /\ ( /\ OneSource(logs, "sshd")
            /\ Len(logs) >= run[1].ssh_threshold
            /\ Span(logs) <= run[1].window_seconds )
          => OnePerIndex(run[1].ssh.events, logs, run[1].ssh_threshold)
       /\ ( /\ OneSource(logs, "nginx")
            /\ \A i \in 1..Len(logs) : logs[i].status_code >= 400
            /\ Len(logs) >= run[1].web_threshold
            /\ Span(logs) <= run[1].window_seconds )
          => OnePerIndex(run[1].web.events, logs, run[1].web_threshold)

\* a sustained burst was reported at several indices
C20_SeveralDetections ==
    /\ run # None
    /\ run[1].cmd = "rules"
    /\ OneSource(logs, "sshd")
    /\ Len(logs) >= run[1].ssh_threshold + 2
    /\ Len(run[1].ssh.events) = Len(logs) - run[1].ssh_threshold + 1

\* ip has threshold nginx error responses within window_seconds of each other
QualifiesWeb(ls, ip, window_seconds, threshold) ==
    \E S \in SUBSET {i \in 1..Len(ls) : /\ ls[i].log_type = "nginx"
                                        /\ ls[i].ip = ip
                                        /\ ls[i].status_code >= 400} :
        /\ Cardinality(S) = threshold
        /\ \A a \in S, b \in S : ls[a].timestamp - ls[b].timestamp <= window_seconds

\* C21: on a batch of well-formed records, analyze_web_attacks emits a
\* detection for every source IP that has threshold error responses within
\* window_seconds, whatever responses below 400 lie between them.
C21_ErrorsDetectedAmongOthers ==
    (run # None /\ run[1].cmd = "rules" /\ WellFormed(logs) /\ Len(logs) <= MaxBatch)
    => \A ip \in {"A", "B"} :
          QualifiesWeb(logs, ip, run[1].window_seconds, run[1].web_threshold)
          => \E j \in 1..Len(run[1].web.events) : run[1].web.events[j].ip = ip

\* the records of one log type in a batch
OnlyType(ls, log_type) == SelectSeq(ls, LAMBDA l : l.log_type = log_type)

\* the records of the curated set that have a given log type
EventsOfType(log_type) == {e \in Events : e.log_type = log_type}

\* C22: what analyze_ssh_bruteforce returns is what it returns for the sshd
\* records alone, and for the batch with one more nginx record at either end;
\* likewise analyze_web_attacks and the nginx records.
C22_RulesIndependent ==
    RanInMemory
    => LET w == run[1].window_seconds
           ts == run[1].ssh_threshold
           tw == run[1].web_threshold
       IN  /\ run[1].ssh = analyze_ssh_bruteforce(OnlyType(logs, "sshd"), w, ts)
           /\ \A e \in EventsOfType("nginx") :
                 /\ run[1].ssh = analyze_ssh_bruteforce(Append(logs, e), w, ts)
                 /\ run[1].ssh = analyze_ssh_bruteforce(<<e>> \o logs, w, ts)
           /\ (run[1].cmd = "rules" \/ run[1].ssh.exc = "")
              => /\ run[1].web = analyze_web_attacks(OnlyType(logs, "nginx"), w, tw)
                 /\ \A e \in EventsOfType("sshd") :
                       /\ run[1].web = analyze_web_attacks(Append(logs, e), w, tw)
                       /\ run[1].web = analyze_web_attacks(<<e>> \o logs, w, tw)

\* process_logs has returned detections of both rules for one source
C22_BothRulesSameSource ==
    /\ run # None
    /\ run[1].cmd = "process_logs"
    /\ run[1].ssh.events # <<>>
    /\ run[1].web.events # <<>>
    /\ run[1].ssh.events[1].ip = run[1].web.events[1].ip

\* every ordering of a batch
Orderings(ls) ==
    {[i \in 1..Len(ls) |-> ls[f[i]]] :
        f \in {g \in [1..Len(ls) -> 1..Len(ls)] :
                 \A i \in 1..Len(ls), j \in 1..Len(ls) : g[i] = g[j] => i = j}}

\* the records a rule selects have pairwise distinct timestamps
DistinctTimes(ls, selects(_)) ==
    \A i \in 1..Len(ls), j \in 1..Len(ls) :
        (i # j /\ selects(ls[i]) /\ selects(ls[j])) => ls[i].timestamp # ls[j].timestamp

\* C29: when the records a rule selects (sshd records; nginx records with
\* status_code >= 400) have pairwise distinct timestamps, the rule returns the
\* same for every ordering of the batch.
C29_OrderIrrelevant ==
    (run # None /\ run[1].cmd = "rules" /\ Len(logs) <= MaxBatch)
    => \A p \in Orderings(logs) :
          /\ DistinctTimes(logs, LAMBDA l : l.log_type = "sshd")
             => analyze_ssh_bruteforce(p, run[1].window_seconds, run[1].ssh_threshold)
                  = run[1].ssh
          /\ DistinctTimes(logs, LAMBDA l : l.log_type = "nginx" /\ l.status_code >= 400)
             => analyze_web_attacks(p, run[1].window_seconds, run[1].web_threshold)
                  = run[1].web

----------------------------------------------------------------------------
(* Further properties of the alert lifecycle and of the statistics *)

\* C25: acknowledge_alert on a stored alert, whatever its status, returns
\* success and leaves it ACKNOWLEDGED with acknowledged_by / acknowledged_at
\* stamped with the analyst and the time of this call.
C25_AcknowledgeAlwaysAccepted ==
    [][(steps' # steps /\ ret'.op = "acknowledge_alert" /\ ret'.id \in DOMAIN db)
       => /\ ret'.ok
          /\ ret'.http = 200
          /\ Got(db', ret'.id).status = "ACKNOWLEDGED"
          /\ Got(db', ret'.id).metadata["acknowledged_by"] = ret'.arg
          /\ Got(db', ret'.id).metadata["acknowledged_at"] = isoformat(now)]_vars

\* an alert resolved by one analyst has been acknowledged by the other
C25_AcknowledgedAfterResolve ==
    /\ ret.op = "acknowledge_alert"
    /\ ret.ok
    /\ "resolved_by" \in DOMAIN Got(db, ret.id).metadata
    /\ Got(db, ret.id).metadata["acknowledged_by"] = ret.arg
    /\ Got(db, ret.id).metadata["resolved_by"] # ret.arg

\* C27: once an alert has a resolved_at, field or metadata stamp, no later
\* call changes its value.
C27_ResolvedAtSetOnce ==
    [][\A id \in DOMAIN db \cap DOMAIN db' :
          /\ Got(db, id).resolved_at # None
             => Got(db', id).resolved_at = Got(db, id).resolved_at
          /\ "resolved_at" \in DOMAIN Got(db, id).metadata
             => /\ "resolved_at" \in DOMAIN Got(db', id).metadata
                /\ Got(db', id).metadata["resolved_at"]
                     = Got(db, id).metadata["resolved_at"]]_vars

\* C28: acknowledge_alert, resolve_alert and update_alert on alert id leave
\* its id, alert_type, source_ip and timestamp, every other alert, and the set
\* of stored ids as they were; the listed alerts have pairwise distinct ids.
C28_UpdatesKeepIdentity ==
    [][(/\ steps' # steps
        /\ ret'.op \in {"acknowledge_alert", "resolve_alert", "update_alert",
                        "service.update_alert"})
       => /\ DOMAIN db' = DOMAIN db
          /\ \A j \in DOMAIN db \ {ret'.id} : db'[j] = db[j]
          /\ ret'.id \in DOMAIN db
             => /\ Got(db', ret'.id).id = Got(db, ret'.id).id
                /\ Got(db', ret'.id).alert_type = Got(db, ret'.id).alert_type
                /\ Got(db', ret'.id).source_ip = Got(db, ret'.id).source_ip
                /\ Got(db', ret'.id).timestamp = Got(db, ret'.id).timestamp
          /\ LET all == Repo_get_all_alerts(db')
             IN  \A i \in 1..Len(all), j \in 1..Len(all) :
                    all[i].id = all[j].id => i = j]_vars

\* the patch that carries alert_type and assigned_to was applied while
\* another alert was stored
C28_PatchedWithAlertType ==
    /\ ret.op = "update_alert"
    /\ ret.ok
    /\ Got(db, ret.id).severity = "CRITICAL"
    /\ Cardinality(DOMAIN db) = 2

\* C30: the 24h count of the trends equals recent_alerts_24h of the statistics
\* taken of the same store at the same instant, and the trends counts are
\* ordered 1h <= 24h <= 7d <= 30d.
C30_TrendsAgreeWithStatistics ==
    ret.op = "get_trends"
    => /\ ret.out.alerts["24h"]
           = AlertService_get_alert_statistics(db, ret.arg.now).out.recent_alerts_24h
       /\ ret.out.alerts["1h"] <= ret.out.alerts["24h"]
       /\ ret.out.alerts["24h"] <= ret.out.alerts["7d"]
       /\ ret.out.alerts["7d"] <= ret.out.alerts["30d"]

----------------------------------------------------------------------------
(* Properties of interleaved calls *)

\* both calls have made both of their transactions, the reads before the writes
Overlapped(a, b) ==
    /\ a.w > 0 /\ b.w > 0
    /\ a.r < b.w /\ b.r < a.w

\* no delete_alert call has been made on the id
Undeleted(id) ==
    \A c \in Callers : ~(calls[c].op = "delete_alert" /\ calls[c].id = id)

\* the status a call writes
StatusWritten(call) == Entity_to_write(call, now).status

\* the metadata keys a call stamps
Stamped(call) ==
    CASE call.op = "acknowledge_alert" -> {"acknowledged_by", "acknowledged_at"}
      [] call.op = "resolve_alert" -> {"resolved_by", "resolved_at"}
      [] call.op = "update_alert" -> DOMAIN call.arg.metadata

\* C23: two acknowledge_alert / resolve_alert calls on the same stored alert
\* that interleave on the store both report success, and the status stored
\* when both are done is the one written by the call that committed last.
C23_LastWriteWins ==
    \A c1 \in Callers : \A c2 \in Callers \ {c1} :
        LET a == calls[c1]
            b == calls[c2]
        IN  ( /\ a.op \in {"acknowledge_alert", "resolve_alert"}
              /\ b.op \in {"acknowledge_alert", "resolve_alert"}
              /\ a.id = b.id
              /\ a.pc = "done" /\ b.pc = "done"
              /\ a.alert # None /\ b.alert # None
              /\ Undeleted(a.id)
              /\ a.w < b.w
              /\ \A c \in Callers : calls[c].id = a.id => calls[c].w <= b.w )
            => /\ a.ok /\ b.ok
               /\ a.exc = "" /\ b.exc = ""
               /\ db[a.id].status = StatusWritten(b)

\* an acknowledge and a resolve of one alert have both read it before either
\* wrote, and the acknowledge committed last
C23_BothReadThenWrote ==
    \E c1 \in Callers, c2 \in Callers :
        /\ calls[c1].op = "resolve_alert"
        /\ calls[c2].op = "acknowledge_alert"
        /\ calls[c1].id = calls[c2].id
        /\ calls[c1].pc = "done" /\ calls[c2].pc = "done"
        /\ Overlapped(calls[c1], calls[c2])
        /\ calls[c1].w < calls[c2].w
        /\ db[calls[c1].id].status = "ACKNOWLEDGED"

\* C24: once a delete_alert of an id has returned True, no alert is stored
\* under that id again: get_alert finds none, no listing or statistic counts
\* one, and no call that read the alert before the delete brings it back.
C24_DeletedStaysDeleted ==
    \A c \in Callers :
        (calls[c].op = "delete_alert" /\ calls[c].pc = "done" /\ calls[c].ok)
        => calls[c].id \notin DOMAIN db

\* C26: when an acknowledge_alert and a resolve_alert or update_alert of the
\* same alert have both read it before either wrote, the metadata stored once
\* both are done holds the keys stamped by both.
C26_NoMetadataKeyLost ==
    \A c1 \in Callers : \A c2 \in Callers \ {c1} :
        LET a == calls[c1]
            b == calls[c2]
        IN  ( /\ a.op = "acknowledge_alert"
              /\ b.op \in {"resolve_alert", "update_alert"}
              /\ a.id = b.id
              /\ a.pc = "done" /\ b.pc = "done"
              /\ a.ok /\ b.ok
              /\ Overlapped(a, b)
              /\ Undeleted(a.id) )
            => Stamped(a) \cup Stamped(b) \subseteq DOMAIN Got(db, a.id).metadata

====
